---- MODULE Spec2Model ----
(***************************************************************************)
(* MiniWoB observation construction (miniwob/observation.py): the          *)
(* serializer of one DOM element, the assembler of an observation from a   *)
(* DOM subtree, and the empty observation, driven by an environment that   *)
(* builds DOM snapshots.                                                   *)
(*                                                                         *)
(* Python values are tagged records ([t |-> "None"], [t |-> "str", ...]),  *)
(* strings are sequences of one-character strings, a NumPy float32 is a    *)
(* pair <<m, e>> standing for m / 2^e, and a raised exception is the       *)
(* "raised" field of a call's outcome.                                     *)
(***************************************************************************)
EXTENDS Integers, Sequences, FiniteSets, TLC

VARIABLES
    dom,      \* the DOM snapshot: node identity -> DOMElement
    edits,    \* attribute changes the environment made to the snapshot
    ret,      \* the last call of observation.py: its arguments and outcome
    tester    \* RepeatedTester.test_run: its position, locals and calls so far

vars == <<dom, edits, ret, tester>>

-----------------------------------------------------------------------------
(* Program constants, observation.py lines 5-7. *)
UTTERANCE_MAX_LENGTH == 256
ATTRIBUTE_MAX_LENGTH == 64
TEXT_MAX_LENGTH == 256

(* Program constants, test_action.py: RepeatedTester.N and the MAX_STEPS of *)
(* TestEnterText.                                                           *)
N == 10
MAX_STEPS == 3

(* Bounds of the model. *)
MaxNodes == 3      \* elements in one DOM snapshot
MaxEdits == 2      \* attribute changes per snapshot
MaxOver == 1       \* how far an input string may exceed its maximum length
MaxRootRef == 2    \* the ref of the snapshot's first element is 1..MaxRootRef
MaxDim == 2        \* screen widths and heights are 0..MaxDim

-----------------------------------------------------------------------------
(* Python values. *)
PyNone == [t |-> "None"]
PyStr(s) == [t |-> "str", s |-> s]
PyBool(b) == [t |-> "bool", b |-> b]
PyInt(n) == [t |-> "int", n |-> n]

IsStr(v) == v.t = "str"

Min(a, b) == IF a <= b THEN a ELSE b

\* bool(v): None, "", False and 0 are falsy.
Truthy(v) ==
    CASE v.t = "None" -> FALSE
      [] v.t = "str" -> Len(v.s) > 0
      [] v.t = "bool" -> v.b
      [] v.t = "int" -> v.n # 0

\* `a or b`
PyOr(a, b) == IF Truthy(a) THEN a ELSE b

DigitChars == <<"0", "1", "2", "3", "4", "5", "6", "7", "8", "9">>

RECURSIVE NatDigits(_)
NatDigits(n) ==
    IF n < 10 THEN <<DigitChars[n + 1]>>
    ELSE NatDigits(n \div 10) \o <<DigitChars[(n % 10) + 1]>>

\* str(v)
PyStrOf(v) ==
    CASE v.t = "str" -> v
      [] v.t = "None" -> PyStr(<<"N", "o", "n", "e">>)
      [] v.t = "bool" -> IF v.b THEN PyStr(<<"T", "r", "u", "e">>)
                         ELSE PyStr(<<"F", "a", "l", "s", "e">>)
      [] v.t = "int" -> IF v.n < 0 THEN PyStr(<<"-">> \o NatDigits(-v.n))
                        ELSE PyStr(NatDigits(v.n))

\* v[:n] on a str, n >= 0.
Slice(v, n) == PyStr(SubSeq(v.s, 1, Min(n, Len(v.s))))

-----------------------------------------------------------------------------
(* NumPy conversions. *)

Pow2_23 == 2 ^ 23
Pow2_24 == 2 ^ 24

\* Binary long division of a positive rational below 2^24 until the quotient
\* has 24 significant bits: <<quotient, remainder, exponent>>.
RECURSIVE F32Norm(_, _, _, _)
F32Norm(q, r, d, e) ==
    IF q >= Pow2_23 THEN <<q, r, e>>
    ELSE F32Norm(2 * q + (IF 2 * r >= d THEN 1 ELSE 0),
                 IF 2 * r >= d THEN 2 * r - d ELSE 2 * r, d, e + 1)

\* Round to nearest, ties to even; a carry out of 24 bits renormalises.
F32Round(n, d) ==
    LET t == F32Norm(n \div d, n % d, d, 0)
        up == 2 * t[2] > d \/ (2 * t[2] = d /\ t[1] % 2 = 1)
        m == IF up THEN t[1] + 1 ELSE t[1]
    IN  IF m = Pow2_24 THEN <<Pow2_23, t[3] - 1>> ELSE <<m, t[3]>>

\* np.float32 of the number x[1] / x[2] (x[2] > 0), as <<m, e>> = m / 2^e.
F32(x) ==
    IF x[1] = 0 THEN <<0, 0>>
    ELSE IF x[1] < 0 THEN LET p == F32Round(-x[1], x[2]) IN <<-p[1], p[2]>>
    ELSE F32Round(x[1], x[2])

\* np.array(seq, dtype=np.float32)
F32Array(xs) == [i \in 1..Len(xs) |-> F32(xs[i])]

\* np.array(bools, dtype=np.int8)
Int8Array(bs) == [i \in 1..Len(bs) |-> IF bs[i] THEN 1 ELSE 0]

\* f >= 0 and f <= 255 for a float32 f.
F32In0To255(f) ==
    /\ f[1] >= 0
    /\ \/ f[2] >= 17
       \/ f[2] >= 0 /\ f[1] <= 255 * (2 ^ f[2])

-----------------------------------------------------------------------------
(* Input strings.  Character i of a generated string depends on i, so a    *)
(* prefix differs from every other substring of the same length.           *)
Alphabet == <<"a", "b", "c", "d", "e", "f", "g">>

MkString(n) == PyStr([i \in 1..n |-> Alphabet[(i % Len(Alphabet)) + 1]])

\* Strings at and just over a maximum length.
StringsAround(max) == {MkString(max + k) : k \in 0..MaxOver}

EmptyStr == PyStr(<<>>)

-----------------------------------------------------------------------------
(* The DOM snapshot the environment hands over (DOMElement).  A node's      *)
(* identity is its creation index; its ref is assigned by the page:         *)
(* elements count up, text pseudo-elements (tag "t") count down from -1.    *)
NoNode == 0

Nodes(d) == DOMAIN d

ElementTag == PyStr(<<"d", "i", "v">>)
TextTag == PyStr(<<"t">>)

NewElement(ref, parent, isText) ==
    [ref |-> ref, parent |-> parent, children |-> <<>>,
     left |-> <<0, 1>>, top |-> <<0, 1>>,
     width |-> <<160, 1>>, height |-> <<210, 1>>,
     tag |-> IF isText THEN TextTag ELSE ElementTag,
     text |-> IF isText THEN PyStr(<<"O", "K">>) ELSE PyNone,
     value |-> PyNone,
     id |-> EmptyStr,
     classes |-> EmptyStr,
     bg_color |-> <<<<0, 255>>, <<0, 255>>, <<0, 255>>, <<0, 1>>>>,
     fg_color |-> <<<<0, 255>>, <<0, 255>>, <<0, 255>>, <<1, 1>>>>,
     focused |-> FALSE, tampered |-> FALSE, targeted |-> FALSE,
     is_leaf |-> TRUE]

SetMax(S) == CHOOSE x \in S : \A y \in S : y <= x
SetMin(S) == CHOOSE x \in S : \A y \in S : x <= y

Refs(d) == {d[n].ref : n \in Nodes(d)}

\* The next refs the page assigns: one above the largest element ref, one
\* below the smallest text ref.
NextElementRef(d) == SetMax({r \in Refs(d) : r > 0}) + 1
NextTextRef(d) == SetMin({r \in Refs(d) : r < 0} \cup {0}) - 1

\* DOMElement.subtree_elements: the element, then each child's subtree.
RECURSIVE subtree_elements(_, _)
RECURSIVE SubtreesOf(_, _)
SubtreesOf(d, cs) ==
    IF cs = <<>> THEN <<>>
    ELSE subtree_elements(d, Head(cs)) \o SubtreesOf(d, Tail(cs))
subtree_elements(d, n) == <<n>> \o SubtreesOf(d, d[n].children)

-----------------------------------------------------------------------------
(* observation.py *)

\* The parts of the observation space the serializer is written against.
get_observation_space(screen_width, screen_height) ==
    [utterance |-> [max_length |-> UTTERANCE_MAX_LENGTH],
     element |->
        [tag |-> [max_length |-> ATTRIBUTE_MAX_LENGTH],
         text |-> [max_length |-> TEXT_MAX_LENGTH],
         value |-> [max_length |-> TEXT_MAX_LENGTH],
         id |-> [max_length |-> ATTRIBUTE_MAX_LENGTH],
         classes |-> [max_length |-> ATTRIBUTE_MAX_LENGTH],
         bg_color |-> [shape |-> <<4>>, low |-> 0, high |-> 255],
         fg_color |-> [shape |-> <<4>>, low |-> 0, high |-> 255],
         flags |-> [n |-> 4]],
     screenshot |-> [shape |-> <<screen_height, screen_width, 3>>,
                     low |-> 0, high |-> 255]]

\* x[:n] raises TypeError unless x is subscriptable; of the values an
\* element carries only a str is.
Subscriptable(v) == v.t = "str"

\* A faulty variant: refs forced into the non-negative range of the parent space.
SerializedRef_Clamped(element) == IF element.ref < 0 THEN 0 ELSE element.ref

\* "ref": element.ref
SerializedRef(element) == element.ref

\* A faulty variant: the element's own ref in place of its parent's.
SerializedParent_OwnRef(element, d) ==
    IF element.parent # NoNode THEN element.ref ELSE 0

\* "parent": element.parent.ref if element.parent else 0
SerializedParent(element, d) ==
    IF element.parent # NoNode THEN d[element.parent].ref ELSE 0

\* "tag": element.tag[:ATTRIBUTE_MAX_LENGTH]
SerializedTag(element) == Slice(element.tag, ATTRIBUTE_MAX_LENGTH)

\* "text": (element.text or "")[:TEXT_MAX_LENGTH]
SerializedText(element) == Slice(PyOr(element.text, EmptyStr), TEXT_MAX_LENGTH)

\* A faulty variant: only a null value becomes "".
SerializedValue_NoneOnly(element) ==
    Slice(IF element.value = PyNone THEN EmptyStr ELSE PyStrOf(element.value),
          TEXT_MAX_LENGTH)

\* A faulty variant: str(element.value) without the `or ""`.
SerializedValue_NoDefault(element) ==
    Slice(PyStrOf(element.value), TEXT_MAX_LENGTH)

\* "value": str(element.value or "")[:TEXT_MAX_LENGTH]
SerializedValue(element) ==
    Slice(PyStrOf(PyOr(element.value, EmptyStr)), TEXT_MAX_LENGTH)

\* "id": element.id
SerializedId(element) == element.id

\* "classes": element.classes
SerializedClasses(element) == element.classes

\* A faulty variant: the components taken as BGRA.
SerializedColor_BGRA(color) ==
    F32Array(<<color[3], color[2], color[1], color[4]>>)

\* np.array(element.bg_color, dtype=np.float32), and fg_color alike
SerializedColor(color) == F32Array(color)

\* A faulty variant: is_leaf placed first.
SerializedFlags_LeafFirst(element) ==
    Int8Array(<<element.is_leaf, element.focused,
                element.tampered, element.targeted>>)

\* np.array([focused, tampered, targeted, is_leaf], dtype=np.int8)
SerializedFlags(element) ==
    Int8Array(<<element.focused, element.tampered,
                element.targeted, element.is_leaf>>)

\* The outcome of serialize_dom_element(element) with the snapshot d holding
\* the element's parent: the dictionary, or the exception a subscript raises.
serialize_dom_element(element, d) ==
    IF ~Subscriptable(element.tag) \/ ~Subscriptable(PyOr(element.text, EmptyStr))
    THEN [raised |-> "TypeError"]
    ELSE [raised |-> "",
          value |->
            [ref |-> SerializedRef(element),
             parent |-> SerializedParent(element, d),
             pos |-> F32Array(<<element.left, element.top>>),
             size |-> F32Array(<<element.width, element.height>>),
             tag |-> SerializedTag(element),
             text |-> SerializedText(element),
             value |-> SerializedValue(element),
             id |-> SerializedId(element),
             classes |-> SerializedClasses(element),
             bg_color |-> SerializedColor(element.bg_color),
             fg_color |-> SerializedColor(element.fg_color),
             flags |-> SerializedFlags(element)]]

\* np.zeros(shape, dtype=np.uint8)
Indices(shape) == (1..shape[1]) \X (1..shape[2]) \X (1..shape[3])
NpZeros(shape) == [shape |-> shape, data |-> [p \in Indices(shape) |-> 0]]

\* A faulty variant: the axes not swapped (width first).
create_empty_screenshot_WidthFirst(screen_width, screen_height) ==
    NpZeros(<<screen_width, screen_height, 3>>)

create_empty_screenshot(screen_width, screen_height) ==
    NpZeros(<<screen_height, screen_width, 3>>)

create_empty_observation(screen_width, screen_height) ==
    [utterance |-> EmptyStr,
     dom_elements |-> <<>>,
     screenshot |-> create_empty_screenshot(screen_width, screen_height)]

\* A faulty variant: the utterance not truncated.
TruncatedUtterance_Whole(utterance) == utterance

\* "utterance": utterance[:UTTERANCE_MAX_LENGTH]
TruncatedUtterance(utterance) == Slice(utterance, UTTERANCE_MAX_LENGTH)

\* Lines 143-149 of create_observation, given the elements to serialize:
\* the observation, or the exception of the first subscript that fails.
AssembleObservation(utterance, dom_elements, screenshot, d) ==
    LET serialized_elements ==
            [i \in 1..Len(dom_elements) |->
                serialize_dom_element(d[dom_elements[i]], d)]
    IN  IF \E i \in 1..Len(dom_elements) : serialized_elements[i].raised # ""
        THEN [raised |-> "TypeError"]
        ELSE IF ~Subscriptable(utterance)
        THEN [raised |-> "TypeError"]
        ELSE [raised |-> "",
              value |->
                [utterance |-> TruncatedUtterance(utterance),
                 dom_elements |->
                    [i \in 1..Len(dom_elements) |-> serialized_elements[i].value],
                 screenshot |-> screenshot]]

\* A faulty variant: the root's children in place of its subtree.
create_observation_ChildrenOnly(utterance, root, screenshot, d) ==
    AssembleObservation(utterance, d[root].children, screenshot, d)

\* The outcome of create_observation(utterance, root_dom, screenshot);
\* root_dom is the node root of the snapshot d.
create_observation(utterance, root, screenshot, d) ==
    AssembleObservation(utterance, subtree_elements(d, root), screenshot, d)

\* A faulty variant: the serializer's defaults written back into the
\* elements (element.text = element.text or "").
ArgumentsAfter_TextDefaulted(utterance, root, screenshot, d) ==
    [screenshot |-> screenshot,
     dom |-> [n \in Nodes(d) |->
                IF \E i \in 1..Len(subtree_elements(d, root)) :
                        subtree_elements(d, root)[i] = n
                THEN [d[n] EXCEPT !.text = PyOr(@, EmptyStr)]
                ELSE d[n]]]

\* The objects passed to create_observation as they are when it returns or
\* raises: lines 142-149 read the elements and bind the screenshot, and
\* assign to no attribute of an element and to no pixel.
ArgumentsAfter(utterance, root, screenshot, d) ==
    [screenshot |-> screenshot, dom |-> d]

-----------------------------------------------------------------------------
(* Inputs. *)

Attributes ==
    {"tag", "text", "value", "id", "classes", "bg_color", "fg_color",
     "focused", "tampered", "targeted", "is_leaf", "left"}

\* RGBA as the DOM reports it: each component a fraction in [0, 1].
ColorChoices ==
    {<<<<255, 255>>, <<165, 255>>, <<0, 255>>, <<1, 2>>>>,
     <<<<128, 255>>, <<1, 255>>, <<254, 255>>, <<1, 1>>>>}

\* The values the environment may give an attribute.  None for tag, id and
\* classes is the type mismatch of a null where a string is expected.
AttributeChoices(a) ==
    CASE a = "tag" -> {PyNone} \cup StringsAround(ATTRIBUTE_MAX_LENGTH)
      [] a = "text" -> {PyNone, EmptyStr} \cup StringsAround(TEXT_MAX_LENGTH)
      [] a = "value" ->
            {PyNone, EmptyStr, PyBool(TRUE), PyBool(FALSE), PyInt(0), PyInt(42)}
                \cup StringsAround(TEXT_MAX_LENGTH)
      [] a = "id" -> {PyNone} \cup StringsAround(ATTRIBUTE_MAX_LENGTH)
      [] a = "classes" -> {PyNone} \cup StringsAround(ATTRIBUTE_MAX_LENGTH)
      [] a \in {"bg_color", "fg_color"} -> ColorChoices
      [] a \in {"focused", "tampered", "targeted", "is_leaf"} -> BOOLEAN
      [] a = "left" -> {<<-5, 2>>}

UtteranceChoices ==
    {PyNone, EmptyStr, PyStr(<<"C", "l", "i", "c", "k">>)}
        \cup StringsAround(UTTERANCE_MAX_LENGTH)

\* An RGB array of the given shape with distinct pixel values.
NpArray(shape, base) ==
    [shape |-> shape,
     data |-> [p \in Indices(shape) |-> (base + 40 * p[1] + 10 * p[2] + p[3]) % 256]]

ScreenshotChoices == {NpArray(<<1, 1, 3>>, 0), NpArray(<<2, 1, 3>>, 200)}

Dims == 0..MaxDim

-----------------------------------------------------------------------------
(* State machine. *)

NoCall == [op |-> "none"]

\* test_run is entered: no episode begun.  i and step are the loop variables,
\* reward and terminated the locals of those names (read only after they
\* are assigned); episode lists the env.reset() and env.step() calls since
\* the latest env.reset(), and resets counts the env.reset() calls.
TesterStart ==
    [pc |-> "for_i", i |-> 0, step |-> 0, reward |-> 0, terminated |-> FALSE,
     episode |-> <<>>, resets |-> 0]

Init ==
    /\ \E r \in 1..MaxRootRef : dom = (1 :> NewElement(r, NoNode, FALSE))
    /\ edits = 0
    /\ ret = NoCall
    /\ tester = TesterStart

\* The environment adds an element or a text pseudo-element as the last
\* child of the element p.
AppendChild(p, isText) ==
    /\ ret = NoCall
    /\ Cardinality(Nodes(dom)) < MaxNodes
    /\ dom[p].ref > 0
    /\ LET new == Cardinality(Nodes(dom)) + 1
           ref == IF isText THEN NextTextRef(dom) ELSE NextElementRef(dom)
       IN  dom' = [n \in Nodes(dom) \cup {new} |->
                    IF n = new THEN NewElement(ref, p, isText)
                    ELSE IF n = p
                    THEN [dom[p] EXCEPT !.children = Append(@, new),
                                        !.is_leaf = FALSE]
                    ELSE dom[n]]
    /\ UNCHANGED <<edits, ret, tester>>

\* The environment gives attribute a of element n the value v.
SetAttribute(n, a, v) ==
    /\ ret = NoCall
    /\ edits < MaxEdits
    /\ dom[n][a] # v
    /\ dom' = [dom EXCEPT ![n][a] = v]
    /\ edits' = edits + 1
    /\ UNCHANGED <<ret, tester>>

\* observation.py is called on the snapshot; the caller holds the outcome
\* until it drops it (Discard).
CallSerializeDomElement(n) ==
    /\ ret = NoCall
    /\ ret' = [op |-> "serialize_dom_element", node |-> n,
               out |-> serialize_dom_element(dom[n], dom)]
    /\ UNCHANGED <<dom, edits, tester>>

CallCreateEmptyObservation(screen_width, screen_height) ==
    /\ ret = NoCall
    /\ ret' = [op |-> "create_empty_observation",
               screen_width |-> screen_width, screen_height |-> screen_height,
               out |-> [raised |-> "",
                        value |-> create_empty_observation(screen_width,
                                                           screen_height)]]
    /\ UNCHANGED <<dom, edits, tester>>

\* ret keeps the screenshot as it was passed (screenshot) and the same
\* buffer as it is once the call is over (screenshot_after).
CallCreateObservation(utterance, root, screenshot) ==
    /\ ret = NoCall
    /\ ret' = [op |-> "create_observation", utterance |-> utterance,
               root |-> root, screenshot |-> screenshot,
               screenshot_after |->
                    ArgumentsAfter(utterance, root, screenshot, dom).screenshot,
               out |-> create_observation(utterance, root, screenshot, dom)]
    /\ dom' = ArgumentsAfter(utterance, root, screenshot, dom).dom
    /\ UNCHANGED <<edits, tester>>

\* The caller drops the returned structure; nothing of the call is retained.
Discard ==
    /\ ret # NoCall
    /\ ret' = NoCall
    /\ UNCHANGED <<dom, edits, tester>>

Append1 == \E p \in Nodes(dom) : \E isText \in BOOLEAN : AppendChild(p, isText)
Set1 ==
    \E n \in Nodes(dom) : \E a \in Attributes : \E v \in AttributeChoices(a) :
        SetAttribute(n, a, v)
Serialize1 == \E n \in Nodes(dom) : CallSerializeDomElement(n)
Empty1 == \E w \in Dims : \E h \in Dims : CallCreateEmptyObservation(w, h)
Observe1 ==
    \E u \in UtteranceChoices : \E r \in Nodes(dom) : \E s \in ScreenshotChoices :
        CallCreateObservation(u, r, s)

\* Observation of DOM trees.
Next == Append1 \/ Serialize1 \/ Empty1 \/ Observe1 \/ Discard

Spec == Init /\ [][Next]_vars

\* Serialization of one element over the values its attributes can take.
NextElem == Set1 \/ Serialize1 \/ Discard

SpecElem == Init /\ [][NextElem]_vars

-----------------------------------------------------------------------------
(* RepeatedTester.test_run (test_action.py lines 45-59), statement by        *)
(* statement.  The environment decides what env.step returns.                *)

RewardChoices == {-1, 0, 1}

\* for i in range(self.N): the next episode, or the end of the test.
ForEpisode ==
    /\ tester.pc = "for_i"
    /\ tester' = [tester EXCEPT !.pc = IF tester.i < N THEN "reset" ELSE "passed"]
    /\ UNCHANGED <<dom, edits, ret>>

\* obs, info = env.reset(); reward = -1
Reset ==
    /\ tester.pc = "reset"
    /\ tester' = [tester EXCEPT !.pc = "for_step", !.step = 0, !.reward = -1,
                                !.episode = <<[call |-> "reset"]>>,
                                !.resets = @ + 1]
    /\ UNCHANGED <<dom, edits, ret>>

\* for step in range(self.MAX_STEPS): the next step, or the loop's else.
ForStep ==
    /\ tester.pc = "for_step"
    /\ tester' = [tester EXCEPT
                    !.pc = IF tester.step < MAX_STEPS THEN "get_action" ELSE "else"]
    /\ UNCHANGED <<dom, edits, ret>>

\* action = self._get_action(env, obs, info, step): it returns, or it raises
\* (NotImplementedError in the base class, a failed assert in a subclass).
GetAction ==
    /\ tester.pc = "get_action"
    /\ \E raises \in BOOLEAN :
        tester' = [tester EXCEPT !.pc = IF raises THEN "failed" ELSE "step"]
    /\ UNCHANGED <<dom, edits, ret>>

\* obs, reward, terminated, _, _ = env.step(action)
Step(reward, terminated) ==
    /\ tester.pc = "step"
    /\ tester' = [tester EXCEPT
                    !.pc = "assert_reward", !.reward = reward,
                    !.terminated = terminated,
                    !.episode = Append(@, [call |-> "step", reward |-> reward,
                                           terminated |-> terminated])]
    /\ UNCHANGED <<dom, edits, ret>>

\* assert reward >= 0 (line 54)
AssertReward ==
    /\ tester.pc = "assert_reward"
    /\ tester' = [tester EXCEPT
                    !.pc = IF tester.reward >= 0 THEN "if_terminated" ELSE "failed"]
    /\ UNCHANGED <<dom, edits, ret>>

\* A faulty variant: the break left out.
IfTerminated_NoBreak ==
    /\ tester.pc = "if_terminated"
    /\ tester' = [tester EXCEPT !.pc = "for_step", !.step = @ + 1]
    /\ UNCHANGED <<dom, edits, ret>>

\* if terminated: break
IfTerminated ==
    /\ tester.pc = "if_terminated"
    /\ tester' = IF tester.terminated
                 THEN [tester EXCEPT !.pc = "final_assert"]
                 ELSE [tester EXCEPT !.pc = "for_step", !.step = @ + 1]
    /\ UNCHANGED <<dom, edits, ret>>

\* else: assert False, "Number of steps exceeded ..."
ElseAssert ==
    /\ tester.pc = "else"
    /\ tester' = [tester EXCEPT !.pc = "failed"]
    /\ UNCHANGED <<dom, edits, ret>>

\* assert reward >= 0 (line 59), then the next iteration of the outer loop.
FinalAssert ==
    /\ tester.pc = "final_assert"
    /\ tester' = IF tester.reward >= 0
                 THEN [tester EXCEPT !.pc = "for_i", !.i = @ + 1]
                 ELSE [tester EXCEPT !.pc = "failed"]
    /\ UNCHANGED <<dom, edits, ret>>

Step1 == \E r \in RewardChoices : \E t \in BOOLEAN : Step(r, t)

NextTest ==
    \/ ForEpisode \/ Reset \/ ForStep \/ GetAction \/ Step1
    \/ AssertReward \/ IfTerminated \/ ElseAssert \/ FinalAssert

SpecTest == Init /\ [][NextTest]_vars

-----------------------------------------------------------------------------
(* Vocabulary of the properties. *)

Returned(op) == ret.op = op /\ ret.out.raised = ""

\* The element given to the serialize_dom_element call held in ret.
Arg == dom[ret.node]

\* The first n characters of the characters s, for n <= Len(s).
FirstN(s, n) == [i \in 1..n |-> s[i]]

\* The input contract of the serializer: tag, id and classes are strings;
\* text and value are strings or null.
InContract(element) ==
    /\ IsStr(element.tag) /\ IsStr(element.id) /\ IsStr(element.classes)
    /\ element.text.t \in {"str", "None"}

StringFields == {"text", "value", "tag", "id", "classes"}

MaxLengthOf(f) == get_observation_space(0, 0).element[f].max_length

\* The nodes of the subtree rooted at r, by parent links.
RECURSIVE HasAncestor(_, _, _)
HasAncestor(d, n, r) ==
    \/ n = r
    \/ d[n].parent # NoNode /\ HasAncestor(d, d[n].parent, r)
SubtreeNodes(d, r) == {n \in Nodes(d) : HasAncestor(d, n, r)}

-----------------------------------------------------------------------------
(* C1: for each of text, value, tag, id and classes, a field longer than   *)
(* its maximum length (256 for text and value, 64 for tag, id, classes) is *)
(* serialized as its first N characters, N the field's maximum length.     *)
C1_LongFieldsTruncated ==
    (ret.op = "serialize_dom_element" /\ InContract(Arg)) =>
        \A f \in StringFields :
            (IsStr(Arg[f]) /\ Len(Arg[f].s) > MaxLengthOf(f)) =>
                /\ ret.out.raised = ""
                /\ ret.out.value[f] = PyStr(FirstN(Arg[f].s, MaxLengthOf(f)))

-----------------------------------------------------------------------------
(* C2: the serialized parent is 0 for an element with no parent and the    *)
(* parent's ref otherwise; so in one observation the entries whose parent  *)
(* equals the ref of an element E are exactly E's children.                *)
ParentOf(element, entry) ==
    /\ element.parent = NoNode => entry.parent = 0
    /\ element.parent # NoNode => entry.parent = dom[element.parent].ref

C2_ParentIsParentRef ==
    /\ Returned("serialize_dom_element") => ParentOf(Arg, ret.out.value)
    /\ Returned("create_observation") =>
        LET order == subtree_elements(dom, ret.root)
            entries == ret.out.value.dom_elements
        IN  \A i \in 1..Len(entries) :
                /\ ParentOf(dom[order[i]], entries[i])
                /\ {j \in 1..Len(entries) : entries[j].parent = entries[i].ref}
                     = {j \in 1..Len(entries) : dom[order[j]].parent = order[i]}

\* An observation of a subtree whose root has a parent and a child.
C2_Witness ==
    /\ Returned("create_observation")
    /\ dom[ret.root].parent # NoNode
    /\ dom[ret.root].children # <<>>
    /\ ret.out.value.dom_elements[2].parent = ret.out.value.dom_elements[1].ref

-----------------------------------------------------------------------------
(* C3: create_observation returns as dom_elements the serialization of the *)
(* subtree rooted at root_dom, element by element in traversal order: as   *)
(* many entries as the subtree has elements, none dropped, duplicated or   *)
(* reordered.                                                              *)
C3_ElementsAreSubtreeSerialized ==
    (ret.op = "create_observation" /\ IsStr(ret.utterance)) =>
        LET order == subtree_elements(dom, ret.root)
            entries == ret.out.value.dom_elements
        IN  /\ ret.out.raised = ""
            /\ Len(entries) = Cardinality(SubtreeNodes(dom, ret.root))
            /\ Len(order) = Len(entries)
            /\ {order[i] : i \in 1..Len(order)} = SubtreeNodes(dom, ret.root)
            /\ \A i \in 1..Len(entries) :
                entries[i] = serialize_dom_element(dom[order[i]], dom).value

\* An observation of a subtree of three elements.
C3_Witness ==
    /\ Returned("create_observation")
    /\ Cardinality(SubtreeNodes(dom, ret.root)) = 3
    /\ Len(ret.out.value.dom_elements) = 3

-----------------------------------------------------------------------------
(* C4: create_empty_observation(width, height) returns the empty           *)
(* utterance, no elements, and an all-zero screenshot of shape             *)
(* (height, width, 3), the shape of the screenshot space.                  *)
C4_EmptyObservation ==
    ret.op = "create_empty_observation" =>
        LET obs == ret.out.value
            shape == <<ret.screen_height, ret.screen_width, 3>>
        IN  /\ ret.out.raised = ""
            /\ obs.utterance = EmptyStr
            /\ obs.dom_elements = <<>>
            /\ obs.screenshot.shape = shape
            /\ DOMAIN obs.screenshot.data = Indices(shape)
            /\ \A p \in DOMAIN obs.screenshot.data : obs.screenshot.data[p] = 0
            /\ obs.screenshot.shape =
                get_observation_space(ret.screen_width,
                                      ret.screen_height).screenshot.shape

\* An empty observation for a screen wider than high, or higher than wide.
C4_Witness ==
    /\ Returned("create_empty_observation")
    /\ ret.screen_width > 0 /\ ret.screen_height > 0
    /\ ret.screen_width # ret.screen_height

-----------------------------------------------------------------------------
(* C5: the serialized bg_color and fg_color have 4 components each, in the *)
(* order of the input, every component in [0, 255].                        *)
ColorOf(input, output) ==
    /\ DOMAIN output = 1..4
    /\ \A k \in 1..4 : output[k] = F32(input[k]) /\ F32In0To255(output[k])

-----------------------------------------------------------------------------
(* C6: in one observation the refs of the entries are pairwise distinct    *)
(* and none is 0.                                                          *)
C6_RefsDistinctNonZero ==
    Returned("create_observation") =>
        LET entries == ret.out.value.dom_elements
        IN  /\ \A i, j \in 1..Len(entries) :
                i # j => entries[i].ref # entries[j].ref
            /\ \A i \in 1..Len(entries) : entries[i].ref # 0

\* An observation of three entries, a text pseudo-element among them.
C6_Witness ==
    /\ Returned("create_observation")
    /\ Len(ret.out.value.dom_elements) = 3
    /\ \E i \in 1..3 : ret.out.value.dom_elements[i].ref < 0

-----------------------------------------------------------------------------
(* C7: a null text is serialized as the empty string, and so is a null     *)
(* value; the call raises no exception in either case.  (The element's tag *)
(* is a string, as the input contract has it.)                             *)
C7_NullTextValueToEmpty ==
    (ret.op = "serialize_dom_element" /\ IsStr(Arg.tag)
        /\ (Arg.text = PyNone \/ Arg.value = PyNone)) =>
        /\ ret.out.raised = ""
        /\ Arg.text = PyNone => ret.out.value.text = EmptyStr
        /\ Arg.value = PyNone => ret.out.value.value = EmptyStr

\* An element of null text and null value has been serialized.
C7_Witness ==
    /\ Returned("serialize_dom_element")
    /\ Arg.text = PyNone /\ Arg.value = PyNone

-----------------------------------------------------------------------------
(* C8: a null given for the element's tag, id or classes, or for the       *)
(* utterance, comes out as the empty string: it is neither passed on as    *)
(* null nor raised as an exception.                                        *)
C8_NullStringsCoerced ==
    /\ ret.op = "serialize_dom_element" =>
        \A f \in {"tag", "id", "classes"} :
            Arg[f] = PyNone =>
                ret.out.raised = "" /\ ret.out.value[f] = EmptyStr
    /\ (ret.op = "create_observation" /\ ret.utterance = PyNone) =>
        ret.out.raised = "" /\ ret.out.value.utterance = EmptyStr

-----------------------------------------------------------------------------
(* C9: the serialized flags are 4 entries, each 0 or 1, in the order       *)
(* focused, tampered, targeted, is_leaf: entry k is 1 exactly when the     *)
(* k-th of these is true of the element.                                   *)
C9_FlagsInOrder ==
    Returned("serialize_dom_element") =>
        LET flags == ret.out.value.flags
            bools == <<Arg.focused, Arg.tampered, Arg.targeted, Arg.is_leaf>>
        IN  /\ DOMAIN flags = 1..4
            /\ \A k \in 1..4 : flags[k] \in {0, 1} /\ (flags[k] = 1 <=> bools[k])

\* A focused element that is no leaf has been serialized.
C9_Witness ==
    /\ Returned("serialize_dom_element")
    /\ Arg.focused /\ ~Arg.is_leaf
    /\ ret.out.value.flags = <<1, 0, 0, 0>>

-----------------------------------------------------------------------------
(* C10: the utterance of the observation is the given utterance when that  *)
(* has at most 256 characters and its first 256 characters otherwise, so   *)
(* never longer than 256.                                                  *)
C10_UtteranceTruncated ==
    (ret.op = "create_observation" /\ IsStr(ret.utterance)) =>
        LET given == ret.utterance.s
        IN  /\ ret.out.raised = ""
            /\ Len(given) <= 256 => ret.out.value.utterance = PyStr(given)
            /\ Len(given) > 256 =>
                ret.out.value.utterance = PyStr(FirstN(given, 256))
            /\ Len(ret.out.value.utterance.s) <= 256

\* An utterance of more than 256 characters has been observed.
C10_Witness ==
    /\ Returned("create_observation")
    /\ Len(ret.utterance.s) > 256
    /\ Len(ret.out.value.utterance.s) = 256

-----------------------------------------------------------------------------
(* C11: create_observation packages the given screenshot unchanged: the    *)
(* returned observation's screenshot is the argument, pixel for pixel, and *)
(* the call modifies neither the screenshot nor the DOM elements it reads. *)
SameArray(a, b) ==
    /\ a.shape = b.shape
    /\ DOMAIN a.data = DOMAIN b.data
    /\ \A p \in DOMAIN a.data : a.data[p] = b.data[p]

C11_ScreenshotPackaged ==
    ret.op = "create_observation" =>
        /\ SameArray(ret.screenshot_after, ret.screenshot)
        /\ ret.out.raised = "" =>
            SameArray(ret.out.value.screenshot, ret.screenshot)

C11_DomUntouched ==
    (ret = NoCall /\ ret'.op = "create_observation") => dom' = dom

C11_ScreenshotAndDomUnchanged ==
    [](C11_ScreenshotPackaged) /\ [][C11_DomUntouched]_vars

\* An observation of two elements, one of null text, with a screenshot of
\* two pixels that are not black.
C11_Witness ==
    /\ Returned("create_observation")
    /\ Len(ret.out.value.dom_elements) >= 2
    /\ \E n \in Nodes(dom) : dom[n].text = PyNone
    /\ ret.screenshot.shape = <<2, 1, 3>>
    /\ \A p \in DOMAIN ret.screenshot.data : ret.screenshot.data[p] # 0

-----------------------------------------------------------------------------
(* C13: in test_run each episode starts with one reset and then takes at    *)
(* most MAX_STEPS steps; no step follows a step that returned terminated;   *)
(* an episode passes only if one of its steps returned terminated and every *)
(* step of it returned reward >= 0; if no step among the first MAX_STEPS    *)
(* returned terminated the test fails at that episode, and no later episode *)
(* is run.                                                                  *)
StepsOf(episode) == {k \in 1..Len(episode) : episode[k].call = "step"}

\* The episode is one reset followed by at most MAX_STEPS steps, none of
\* them after a step that returned terminated.
EpisodeWellFormed(episode) ==
    episode # <<>> =>
        /\ episode[1].call = "reset"
        /\ StepsOf(episode) = 2..Len(episode)
        /\ Len(episode) - 1 <= MAX_STEPS
        /\ \A k \in StepsOf(episode) : k < Len(episode) => ~episode[k].terminated

\* The episode in tester.episode has passed: the outer loop is back at its
\* head, or over.
EpisodePassed == tester.pc \in {"for_i", "passed"} /\ tester.i > 0

\* An episode is in progress, or the test failed in it.
InEpisode == tester.pc \notin {"for_i", "reset", "passed"}

C13_State ==
    /\ EpisodeWellFormed(tester.episode)
    /\ tester.i <= N
    /\ tester.resets = tester.i + (IF InEpisode THEN 1 ELSE 0)
    /\ EpisodePassed =>
        /\ \E k \in StepsOf(tester.episode) : tester.episode[k].terminated
        /\ \A k \in StepsOf(tester.episode) : tester.episode[k].reward >= 0
    /\ tester.pc = "passed" => tester.i = N
    /\ tester.pc = "else" =>
        /\ Len(tester.episode) = MAX_STEPS + 1
        /\ \A k \in StepsOf(tester.episode) : ~tester.episode[k].terminated
    /\ tester.pc = "final_assert" => tester.episode[Len(tester.episode)].terminated

\* The steps are used up without a terminated one: the test fails there.
\* Once failed, nothing more is run.
C13_Step ==
    /\ tester.pc = "else" => tester'.pc = "failed"
    /\ tester.pc = "failed" => tester' = tester

C13_TestRun == [](C13_State) /\ [][C13_Step]_vars

\* The third episode has passed at its last allowed step.
C13_Witness ==
    /\ tester.pc = "for_i" /\ tester.i = 3
    /\ Len(tester.episode) = MAX_STEPS + 1
    /\ tester.episode[MAX_STEPS + 1].terminated

-----------------------------------------------------------------------------
(* C14: the serialized value is a non-empty string exactly when the input  *)
(* value is truthy: a null, empty-string, false or zero value comes out as *)
(* the empty string, any other value as the first TEXT_MAX_LENGTH          *)
(* characters of its string form.  (The element's tag is a string, as the  *)
(* input contract has it.)                                                 *)

\* The values Python takes for false, among those an element's value has.
FalsyValues == {PyNone, EmptyStr, PyBool(FALSE), PyInt(0)}

\* The string form of a truthy value, spelled out per type.
StringForm(v) ==
    CASE v.t = "str" -> v.s
      [] v.t = "bool" -> <<"T", "r", "u", "e">>
      [] v.t = "int" -> NatDigits(v.n)

C14_ValueNonEmptyIffTruthy ==
    (ret.op = "serialize_dom_element" /\ IsStr(Arg.tag)) =>
        /\ ret.out.raised = ""
        /\ IsStr(ret.out.value.value)
        /\ Len(ret.out.value.value.s) > 0 <=> Arg.value \notin FalsyValues
        /\ Arg.value \in FalsyValues => ret.out.value.value = EmptyStr
        /\ Arg.value \notin FalsyValues =>
            LET form == StringForm(Arg.value)
            IN  ret.out.value.value.s =
                    FirstN(form, Min(Len(form), TEXT_MAX_LENGTH))

\* A checked checkbox (value True) has been serialized: its value is "True".
C14_Witness ==
    /\ Returned("serialize_dom_element")
    /\ Arg.value = PyBool(TRUE)
    /\ ret.out.value.value = PyStr(<<"T", "r", "u", "e">>)

====
